---- MODULE Spec2Model ----
(***************************************************************************)
(* Model of fqf_iqn/utils.py: update_params, calculate_huber_loss,         *)
(* calculate_quantile_huber_loss, RunningMeanStats, LinearAnneaer and      *)
(* LRSweeper.  Every component has its own specification (SpecSweeper,     *)
(* SpecAnnealer, SpecStats, SpecUpdate, SpecHuber, SpecQuantile); the      *)
(* variables of the other components are left at NoObject.                 *)
(***************************************************************************)
EXTENDS Integers, Sequences, FiniteSets

VARIABLES
    sweeper,     \* the LRSweeper object: values, interval, steps, index, n, lr
    optimizer,   \* the optimizer handed to LRSweeper: lr of each param group
    annealer,    \* the LinearAnneaer object: steps, start_value, end_value, num_steps, a, b
    stepCalls,   \* number of LinearAnneaer.step() calls made so far (history)
    rms,         \* the RunningMeanStats object: n, stats
    appended,    \* every sample handed to RunningMeanStats.append so far (history)
    upd,         \* the running update_params call: arguments and position
    log,         \* the calls update_params has made on optim, loss and torch
    loss,        \* arguments and result of the loss functions
    call         \* the last method call made on an object and what it returned

vars == <<sweeper, optimizer, annealer, stepCalls, rms, appended, upd, log, loss, call>>

NoObject == <<>>
NoCall == [op |-> "none", raised |-> "none", val |-> 0]

Abs(x) == IF x < 0 THEN 0 - x ELSE x
Sign(x) == IF x < 0 THEN 0 - 1 ELSE IF x > 0 THEN 1 ELSE 0
Min(x, y) == IF x <= y THEN x ELSE y
Max(x, y) == IF x >= y THEN x ELSE y

(***************************************************************************)
(* Python floats (IEEE-754 binary64, round to nearest, ties to even).      *)
(* A non-zero float is [sgn, man, exp]: man holds the Precision bits of    *)
(* the significand, most significant first (man[1] = 1), and the value is  *)
(* sgn * man * 2^exp.  Bit sequences stand for naturals of any size.       *)
(* Exponents stay far inside the normal range for the inputs used here.    *)
(***************************************************************************)
Precision == 53

Zero == [sgn |-> 0, man |-> <<>>, exp |-> 0]
Zeros(k) == [i \in 1..k |-> 0]

\* number of bits of the natural n (n < 2^30)
Width(n) == CHOOSE w \in 0..30 : n < 2^w /\ (w = 0 \/ 2^(w - 1) <= n)

\* the w low bits of the natural n, most significant first
BitsOf(n, w) == [i \in 1..w |-> (n \div 2^(w - i)) % 2]

NatBits(n) == BitsOf(n, Width(n))

\* b without its leading zeros
Strip(b) ==
    LET nz == {i \in 1..Len(b) : b[i] = 1}
    IN  IF nz = {} THEN <<>>
        ELSE SubSeq(b, CHOOSE i \in nz : \A j \in nz : i <= j, Len(b))

Pad(b, L) == Zeros(L - Len(b)) \o b

\* x + y for bit sequences of one length: the carry into position i comes
\* from the nearest lower position that generates one, through positions
\* that propagate it
AddAligned(x, y) ==
    LET L == Len(x)
        Carry(i) == \E j \in (i + 1)..L :
                        /\ x[j] + y[j] = 2
                        /\ \A m \in (i + 1)..(j - 1) : x[m] + y[m] = 1
        C(i) == IF Carry(i) THEN 1 ELSE 0
    IN  BitsOf(C(0), C(0)) \o [i \in 1..L |-> (x[i] + y[i] + C(i)) % 2]

\* x - y for bit sequences of one length, x >= y
SubAligned(x, y) ==
    LET L == Len(x)
        Borrow(i) == \E j \in (i + 1)..L :
                         /\ x[j] < y[j]
                         /\ \A m \in (i + 1)..(j - 1) : x[m] = y[m]
        B(i) == IF Borrow(i) THEN 1 ELSE 0
    IN  [i \in 1..L |-> (x[i] - y[i] - B(i)) % 2]

AddBits(x, y) ==
    LET L == Max(Len(x), Len(y)) IN AddAligned(Pad(x, L), Pad(y, L))

\* -1, 0, 1 as x <, =, > y, for bit sequences of one length
CmpBits(x, y) ==
    LET d == {i \in 1..Len(x) : x[i] # y[i]}
        f == CHOOSE i \in d : \A j \in d : i <= j
    IN  IF d = {} THEN 0 ELSE IF x[f] > y[f] THEN 1 ELSE 0 - 1

\* b * k for a bit sequence b and a small natural k
RECURSIVE MulBits(_, _)
MulBits(b, k) ==
    IF k = 0 THEN <<>>
    ELSE LET h == MulBits(b, k \div 2) \o <<0>>
         IN  IF k % 2 = 1 THEN AddBits(h, b) ELSE h

\* sgn * bits * 2^exp (plus a non-zero residue below the last bit when
\* sticky), rounded to Precision bits, ties to even
RoundF(sgn, bits, exp, sticky) ==
    LET b == Strip(bits)
        L == Len(b)
    IN  IF L = 0 THEN Zero
        ELSE IF L <= Precision
        THEN [sgn |-> sgn, man |-> b \o Zeros(Precision - L), exp |-> exp - (Precision - L)]
        ELSE LET keep == SubSeq(b, 1, Precision)
                 rest == sticky \/ \E i \in (Precision + 2)..L : b[i] = 1
                 up == b[Precision + 1] = 1 /\ (rest \/ keep[Precision] = 1)
                 k2 == IF up THEN AddBits(keep, <<1>>) ELSE keep
                 e == exp + (L - Precision)
             IN  IF Len(k2) > Precision
                 THEN [sgn |-> sgn, man |-> SubSeq(k2, 1, Precision), exp |-> e + 1]
                 ELSE [sgn |-> sgn, man |-> k2, exp |-> e]

\* float(i) for a Python int i
FromInt(i) == RoundF(Sign(i), NatBits(Abs(i)), 0, FALSE)

\* p / q for Python ints p, q with 0 < q < 2^15 and p = 0 or |p / q| >= 2^-15:
\* the correctly rounded quotient, by long division in base 2^15 (five
\* fraction digits leave more than Precision + 2 quotient bits)
DivInt(p, q) ==
    LET m == Abs(p)
        B == 2^15
        r0 == m % q
        r1 == (r0 * B) % q
        r2 == (r1 * B) % q
        r3 == (r2 * B) % q
        r4 == (r3 * B) % q
        r5 == (r4 * B) % q
        bits == NatBits(m \div q)
                  \o BitsOf((r0 * B) \div q, 15) \o BitsOf((r1 * B) \div q, 15)
                  \o BitsOf((r2 * B) \div q, 15) \o BitsOf((r3 * B) \div q, 15)
                  \o BitsOf((r4 * B) \div q, 15)
    IN  RoundF(Sign(p), bits, 0 - 75, r5 # 0)

\* f * k for a float f and a Python int k
MulF(f, k) ==
    IF f.sgn = 0 \/ k = 0 THEN Zero
    ELSE RoundF(f.sgn * Sign(k), MulBits(f.man, Abs(k)), f.exp, FALSE)

\* f + i for a float f and a Python int i
AddF(f, i) ==
    IF i = 0 THEN f
    ELSE IF f.sgn = 0 THEN FromInt(i)
    ELSE LET e == Min(f.exp, 0)
             x == f.man \o Zeros(f.exp - e)
             y == NatBits(Abs(i)) \o Zeros(0 - e)
             L == Max(Len(x), Len(y))
             xp == Pad(x, L)
             yp == Pad(y, L)
             c == CmpBits(xp, yp)
         IN  IF f.sgn = Sign(i) THEN RoundF(f.sgn, AddAligned(xp, yp), e, FALSE)
             ELSE IF c = 0 THEN Zero
             ELSE IF c > 0 THEN RoundF(f.sgn, SubAligned(xp, yp), e, FALSE)
             ELSE RoundF(Sign(i), SubAligned(yp, xp), e, FALSE)

\* -1, 0, 1 as f <, =, > g
CmpF(f, g) ==
    IF f.sgn # g.sgn THEN (IF f.sgn > g.sgn THEN 1 ELSE 0 - 1)
    ELSE IF f.sgn = 0 THEN 0
    ELSE IF f.exp # g.exp THEN (IF f.exp > g.exp THEN f.sgn ELSE 0 - f.sgn)
    ELSE f.sgn * CmpBits(f.man, g.man)

LeF(f, g) == CmpF(f, g) <= 0

(***************************************************************************)
(* LRSweeper.  Learning rates are opaque numbers, written here in          *)
(* thousandths (100 is 0.1, 10 is 0.01).  index is zero-based as in the    *)
(* source; values is a TLA+ sequence, so values[index] is values[index+1]. *)
(***************************************************************************)
MaxValues == 3
MaxInterval == 2
MaxGroups == 2
MaxSweeperSteps == 8

LRValues == {100, 10}
OptimizerDefaultLR == 1

SeqsUpTo(S, n) == UNION {[1..k -> S] : k \in 1..n}

AdvanceOffByOne(steps, interval) == steps % interval = interval - 1
Advance(steps, interval) == steps % interval = 0

NextIndexWrap(index, n) == (index + 1) % n
NextIndex(index, n) == index + 1

IndexInRange(index, n) == 0 <= index /\ index < n

\* set_lr on sweeper sw and optimizer opt: what it raises and what it leaves
SetLr(sw, opt) ==
    IF ~IndexInRange(sw.index, sw.n)
    THEN [raised |-> "AssertionError", optimizer |-> opt, lr |-> sw.lr]
    ELSE [raised |-> "none",
          optimizer |-> [opt EXCEPT !.param_groups =
                            [g \in DOMAIN @ |-> [@[g] EXCEPT !.lr = sw.values[sw.index + 1]]]],
          lr |-> sw.values[sw.index + 1]]

\* LRSweeper(optimizer, values, interval), values non-empty
SweeperInit ==
    \E values \in SeqsUpTo(LRValues, MaxValues), interval \in 1..MaxInterval,
       groups \in 0..MaxGroups :
        LET opt == [param_groups |-> [g \in 1..groups |-> [lr |-> OptimizerDefaultLR]]]
            sw == [values |-> values, interval |-> interval, steps |-> 0,
                   index |-> 0, n |-> Len(values), lr |-> 0]
            r == SetLr(sw, opt)
        IN  /\ sweeper = [sw EXCEPT !.lr = r.lr]
            /\ optimizer = r.optimizer
    /\ call = NoCall
    /\ annealer = NoObject /\ stepCalls = 0 /\ rms = NoObject /\ appended = <<>>
    /\ upd = NoObject /\ log = <<>> /\ loss = NoObject

SweeperStep ==
    /\ sweeper.steps < MaxSweeperSteps
    /\ LET s1 == [sweeper EXCEPT !.steps = @ + 1]
           s2 == [s1 EXCEPT !.index = NextIndex(@, s1.n)]
           r == SetLr(s2, optimizer)
       IN  IF Advance(s1.steps, s1.interval)
           THEN /\ sweeper' = [s2 EXCEPT !.lr = r.lr]
                /\ optimizer' = r.optimizer
                /\ call' = [op |-> "step", raised |-> r.raised, val |-> 0]
           ELSE /\ sweeper' = s1
                /\ optimizer' = optimizer
                /\ call' = [op |-> "step", raised |-> "none", val |-> 0]
    /\ UNCHANGED <<annealer, stepCalls, rms, appended, upd, log, loss>>

SweeperGet ==
    /\ call' = [op |-> "get", raised |-> "none", val |-> sweeper.lr]
    /\ UNCHANGED <<sweeper, optimizer, annealer, stepCalls, rms, appended, upd, log, loss>>

SweeperNext == SweeperStep \/ SweeperGet

SpecSweeper == SweeperInit /\ [][SweeperNext]_vars

GroupsAt(v) == \A g \in DOMAIN optimizer.param_groups : optimizer.param_groups[g].lr = v

\* C1: in every state reached by step() calls the index satisfies
\* 0 <= index < len(values).
C1_IndexInRange == 0 <= sweeper.index /\ sweeper.index < sweeper.n

\* C2: after k step() calls with k < len(values) * interval, index is
\* floor(k / interval), no call has raised, and get(), the lr attribute and
\* the lr of every parameter group are values[floor(k / interval)].
C2_IndexFollowsSteps ==
    LET k == sweeper.steps
        v == sweeper.values[(k \div sweeper.interval) + 1]
    IN  k < sweeper.n * sweeper.interval =>
            /\ sweeper.index = k \div sweeper.interval
            /\ sweeper.lr = v
            /\ GroupsAt(v)
            /\ call.op = "get" => call.val = v
            /\ call.op = "step" => call.raised = "none"

C2_Witness ==
    /\ sweeper.n = 3 /\ sweeper.interval = 2 /\ sweeper.steps = 5
    /\ sweeper.index = 2
    /\ sweeper.values = <<100, 100, 10>>
    /\ Len(optimizer.param_groups) = 2 /\ GroupsAt(10)
    /\ call.op = "get" /\ call.val = 10

\* C3: once the last entry of values has been set (the index has reached
\* it, which happens at step (len(values) - 1) * interval), every step()
\* completes or raises AssertionError, and get(), the lr attribute and the
\* lr of every parameter group stay at the last entry; with values
\* [0.1, 0.01] and interval 2, get() is 0.01 from the second step on.
C3_LastValueStays ==
    LET v == sweeper.values[sweeper.n]
    IN  /\ (\/ sweeper.index >= sweeper.n - 1
            \/ sweeper.steps >= (sweeper.n - 1) * sweeper.interval) =>
            /\ sweeper.lr = v
            /\ GroupsAt(v)
            /\ call.op = "get" => call.val = v
            /\ call.op = "step" => call.raised \in {"none", "AssertionError"}
        /\ (sweeper.values = <<100, 10>> /\ sweeper.interval = 2 /\ sweeper.steps >= 2
               /\ call.op = "get") => call.val = 10

C3_Witness ==
    /\ sweeper.values = <<100, 10>> /\ sweeper.interval = 2
    /\ sweeper.steps = 4 /\ sweeper.index = 2
    /\ call.op = "step" /\ call.raised = "AssertionError"
    /\ sweeper.lr = 10 /\ Len(optimizer.param_groups) = 2 /\ GroupsAt(10)

(***************************************************************************)
(* LinearAnneaer.  start_value and end_value are Python ints; a is the     *)
(* float (end_value - start_value) / num_steps and get() evaluates         *)
(* a * steps + b in floats.                                                *)
(***************************************************************************)
MaxNumSteps == 7
MaxStepCalls == 9

StartValues == {0, 1}
EndValues == {0, 10, 29}

NoCallF == [op |-> "none", raised |-> "none", val |-> Zero]

UnclampedStep(steps, num_steps) == steps + 1
ClampedStep(steps, num_steps) == Min(num_steps, steps + 1)

StepsInRangeFromZero(steps, num_steps) == 0 <= steps /\ steps <= num_steps
StepsInRange(steps, num_steps) == 0 < steps /\ steps <= num_steps

\* LinearAnneaer(start_value, end_value, num_steps), num_steps a positive int
AnnealerInit ==
    /\ \E sv \in StartValues, ev \in EndValues, ns \in 1..MaxNumSteps :
        annealer = [steps |-> 0, start_value |-> sv, end_value |-> ev, num_steps |-> ns,
                    a |-> DivInt(ev - sv, ns), b |-> sv]
    /\ stepCalls = 0
    /\ call = NoCallF
    /\ sweeper = NoObject /\ optimizer = NoObject /\ rms = NoObject /\ appended = <<>>
    /\ upd = NoObject /\ log = <<>> /\ loss = NoObject

AnnealerStep ==
    /\ stepCalls < MaxStepCalls
    /\ annealer' = [annealer EXCEPT !.steps = ClampedStep(@, annealer.num_steps)]
    /\ stepCalls' = stepCalls + 1
    /\ call' = [op |-> "step", raised |-> "none", val |-> Zero]
    /\ UNCHANGED <<sweeper, optimizer, rms, appended, upd, log, loss>>

AnnealerGet ==
    /\ call' = IF StepsInRange(annealer.steps, annealer.num_steps)
               THEN [op |-> "get", raised |-> "none",
                     val |-> AddF(MulF(annealer.a, annealer.steps), annealer.b)]
               ELSE [op |-> "get", raised |-> "AssertionError", val |-> Zero]
    /\ UNCHANGED <<sweeper, optimizer, annealer, stepCalls, rms, appended, upd, log, loss>>

AnnealerNext == AnnealerStep \/ AnnealerGet

SpecAnnealer == AnnealerInit /\ [][AnnealerNext]_vars

\* C4: steps starts at 0, never decreases, stays within 0..num_steps, grows
\* by exactly one on a step() below num_steps, and is left alone by a step()
\* at num_steps and by every get().
C4_StepsClamped ==
    /\ annealer.steps = 0
    /\ [][/\ annealer'.steps >= annealer.steps
          /\ 0 <= annealer'.steps /\ annealer'.steps <= annealer'.num_steps
          /\ call'.op = "step" =>
                annealer'.steps = IF annealer.steps < annealer.num_steps
                                  THEN annealer.steps + 1 ELSE annealer.steps
          /\ call'.op = "get" => annealer'.steps = annealer.steps]_vars

C4_Witness ==
    /\ call.op = "step"
    /\ annealer.steps = annealer.num_steps
    /\ stepCalls = annealer.num_steps + 2
    /\ annealer.num_steps >= 2

\* C5: after k >= 1 step() calls get() returns the point
\* start_value + (end_value - start_value) * min(k, num_steps) / num_steps
\* of the line; stated here are the consequences drawn from it, which do
\* not depend on how that quotient is rounded: the value lies between
\* start_value and end_value inclusive, it equals end_value for every
\* k >= num_steps, and LinearAnneaer(0, 10, 5) returns 2 after 1 step and
\* 10 after 5 steps.
C5_GetReachesEndValueInRange ==
    (call.op = "get" /\ call.raised = "none") =>
        LET sv == annealer.start_value
            ev == annealer.end_value
            ns == annealer.num_steps
        IN  /\ \/ LeF(FromInt(sv), call.val) /\ LeF(call.val, FromInt(ev))
               \/ LeF(FromInt(ev), call.val) /\ LeF(call.val, FromInt(sv))
            /\ stepCalls >= ns => call.val = FromInt(ev)
            /\ (sv = 0 /\ ev = 10 /\ ns = 5 /\ stepCalls = 1) => call.val = FromInt(2)
            /\ (sv = 0 /\ ev = 10 /\ ns = 5 /\ stepCalls = 5) => call.val = FromInt(10)

\* C6: get() raises AssertionError exactly when steps = 0 or
\* steps > num_steps: it fails before the first step() and never after one.
C6_GetFailsOnlyBeforeFirstStep ==
    call.op = "get" =>
        /\ call.raised = "AssertionError" <=>
              (annealer.steps = 0 \/ annealer.steps > annealer.num_steps)
        /\ call.raised \in {"none", "AssertionError"}
        /\ stepCalls = 0 => call.raised = "AssertionError"
        /\ stepCalls >= 1 => call.raised = "none"

C6_Witness ==
    /\ call.op = "get" /\ call.raised = "AssertionError"
    /\ stepCalls = 0 /\ annealer.steps = 0

(***************************************************************************)
(* RunningMeanStats.  Samples are Python ints; get() is numpy's mean: the  *)
(* float64 quotient of the (exact) sum by the count, nan on no samples.    *)
(***************************************************************************)
MaxN == 3
MaxAppends == 4

Samples == {1, 2, 3, 4}

NaN == [sgn |-> 0, man |-> <<>>, exp |-> 1]

RECURSIVE SumSeq(_)
SumSeq(q) == IF q = <<>> THEN 0 ELSE Head(q) + SumSeq(Tail(q))

\* deque(maxlen).append(x)
DequeAppendDropNewest(d, x, maxlen) == IF Len(d) = maxlen THEN d ELSE Append(d, x)
DequeAppend(d, x, maxlen) ==
    IF maxlen = 0 THEN d
    ELSE IF Len(d) = maxlen THEN Append(Tail(d), x)
    ELSE Append(d, x)

\* RunningMeanStats(n)
StatsInit ==
    /\ \E n \in 0..MaxN : rms = [n |-> n, stats |-> <<>>]
    /\ appended = <<>>
    /\ call = NoCallF
    /\ sweeper = NoObject /\ optimizer = NoObject /\ annealer = NoObject /\ stepCalls = 0
    /\ upd = NoObject /\ log = <<>> /\ loss = NoObject

StatsAppend ==
    /\ Len(appended) < MaxAppends
    /\ \E x \in Samples :
        /\ rms' = [rms EXCEPT !.stats = DequeAppend(@, x, rms.n)]
        /\ appended' = Append(appended, x)
    /\ call' = [op |-> "append", raised |-> "none", val |-> Zero]
    /\ UNCHANGED <<sweeper, optimizer, annealer, stepCalls, upd, log, loss>>

StatsGet ==
    /\ call' = [op |-> "get", raised |-> "none",
                val |-> IF rms.stats = <<>> THEN NaN
                        ELSE DivInt(SumSeq(rms.stats), Len(rms.stats))]
    /\ UNCHANGED <<sweeper, optimizer, annealer, stepCalls, rms, appended, upd, log, loss>>

StatsNext == StatsAppend \/ StatsGet

SpecStats == StatsInit /\ [][StatsNext]_vars

SeqMin(q) == CHOOSE x \in {q[i] : i \in 1..Len(q)} : \A i \in 1..Len(q) : x <= q[i]
SeqMax(q) == CHOOSE x \in {q[i] : i \in 1..Len(q)} : \A i \in 1..Len(q) : x >= q[i]

\* C7: after appending x1..xk the buffer holds exactly the last min(k, n)
\* samples in arrival order, never more than n, and get() returns their
\* arithmetic mean; with n = 3, appending 1, 2, 3, 4 leaves [2, 3, 4] and
\* get() returns 3.
C7_BufferIsLastN ==
    LET k == Len(appended)
        m == Min(k, rms.n)
        lastm == SubSeq(appended, k - m + 1, k)
    IN  /\ rms.stats = lastm
        /\ Len(rms.stats) <= rms.n
        /\ (call.op = "get" /\ m > 0) =>
              /\ call.val = DivInt(SumSeq(lastm), m)
              /\ LeF(FromInt(SeqMin(lastm)), call.val)
              /\ LeF(call.val, FromInt(SeqMax(lastm)))
        /\ (rms.n = 3 /\ appended = <<1, 2, 3, 4>>) =>
              /\ rms.stats = <<2, 3, 4>>
              /\ call.op = "get" => call.val = FromInt(3)

C7_Witness ==
    /\ rms.n = 3 /\ appended = <<1, 2, 3, 4>> /\ rms.stats = <<2, 3, 4>>
    /\ call.op = "get" /\ call.val = FromInt(3)

(***************************************************************************)
(* update_params.  One call is followed call by call: log holds the calls  *)
(* made so far on optim, loss and torch.nn.utils, in order.  grad_cliping  *)
(* is None (given = FALSE) or a number; networks is a list of `networks`   *)
(* modules, named 1..networks.                                             *)
(***************************************************************************)
MaxNetworks == 2

GradClipings ==
    {[given |-> FALSE, value |-> 0]} \cup {[given |-> TRUE, value |-> v] : v \in {0, 1, 5, 10}}

UpdateArgs ==
    [grad_cliping : GradClipings, retain_graph : BOOLEAN, networks : 0..MaxNetworks]

\* Python's truth value of grad_cliping: None and 0 are false
TruthyWhenGiven(grad_cliping) == grad_cliping.given
Truthy(grad_cliping) == grad_cliping.given /\ grad_cliping.value # 0

Entered(args) ==
    [pc |-> "zero_grad", net |-> 0, grad_cliping |-> args.grad_cliping,
     retain_graph |-> args.retain_graph, networks |-> args.networks]

UpdateInit ==
    /\ \E args \in UpdateArgs : upd = Entered(args)
    /\ log = <<>>
    /\ call = NoCall
    /\ sweeper = NoObject /\ optimizer = NoObject /\ annealer = NoObject /\ stepCalls = 0
    /\ rms = NoObject /\ appended = <<>> /\ loss = NoObject

UNCHANGED_others == UNCHANGED <<sweeper, optimizer, annealer, stepCalls, rms, appended, loss, call>>

\* update_params is entered again by the training loop
UpdateCall ==
    /\ upd.pc = "done"
    /\ \E args \in UpdateArgs : upd' = Entered(args)
    /\ log' = <<>>
    /\ UNCHANGED_others

UpdateZeroGrad ==
    /\ upd.pc = "zero_grad"
    /\ log' = Append(log, [fn |-> "optim.zero_grad", net |-> 0, arg |-> 0])
    /\ upd' = [upd EXCEPT !.pc = "backward"]
    /\ UNCHANGED_others

UpdateBackward ==
    /\ upd.pc = "backward"
    /\ log' = Append(log, [fn |-> "loss.backward", net |-> 0,
                           arg |-> IF upd.retain_graph THEN 1 ELSE 0])
    /\ upd' = IF Truthy(upd.grad_cliping) /\ upd.networks > 0
              THEN [upd EXCEPT !.pc = "clip", !.net = 1]
              ELSE [upd EXCEPT !.pc = "step"]
    /\ UNCHANGED_others

UpdateClip ==
    /\ upd.pc = "clip"
    /\ log' = Append(log, [fn |-> "clip_grad_norm_", net |-> upd.net,
                           arg |-> upd.grad_cliping.value])
    /\ upd' = IF upd.net < upd.networks
              THEN [upd EXCEPT !.net = @ + 1]
              ELSE [upd EXCEPT !.pc = "step"]
    /\ UNCHANGED_others

UpdateStep ==
    /\ upd.pc = "step"
    /\ log' = Append(log, [fn |-> "optim.step", net |-> 0, arg |-> 0])
    /\ upd' = [upd EXCEPT !.pc = "done"]
    /\ UNCHANGED_others

UpdateNext == UpdateCall \/ UpdateZeroGrad \/ UpdateBackward \/ UpdateClip \/ UpdateStep

SpecUpdate == UpdateInit /\ [][UpdateNext]_vars

\* the calls of one update_params call when clipping happens iff clipOn
CallsInOrder(clipOn) ==
    <<[fn |-> "optim.zero_grad", net |-> 0, arg |-> 0],
      [fn |-> "loss.backward", net |-> 0, arg |-> IF upd.retain_graph THEN 1 ELSE 0]>>
    \o (IF clipOn
        THEN [i \in 1..upd.networks |->
                 [fn |-> "clip_grad_norm_", net |-> i, arg |-> upd.grad_cliping.value]]
        ELSE <<>>)
    \o <<[fn |-> "optim.step", net |-> 0, arg |-> 0]>>

IsPrefix(p, q) == Len(p) <= Len(q) /\ SubSeq(q, 1, Len(p)) = p

\* C8 as stated: one call makes, in this order and each once, zero_grad,
\* backward, clip_grad_norm_ on every network iff a grad_clip value was
\* given, and the optimizer step.
C8_ClipsIffGiven ==
    /\ IsPrefix(log, CallsInOrder(upd.grad_cliping.given))
    /\ upd.pc = "done" <=> log = CallsInOrder(upd.grad_cliping.given)

\* C8 as amended: the same, with clip_grad_norm_ on every network iff a
\* grad_clip value was given and that value is not zero.
C8_ClipsIffGivenNonZero ==
    /\ IsPrefix(log, CallsInOrder(upd.grad_cliping.given /\ upd.grad_cliping.value # 0))
    /\ upd.pc = "done" <=>
          log = CallsInOrder(upd.grad_cliping.given /\ upd.grad_cliping.value # 0)

C8_Witness ==
    /\ upd.pc = "done" /\ upd.networks = 2
    /\ upd.grad_cliping = [given |-> TRUE, value |-> 5]
    /\ Len(log) = 5 /\ log[3].fn = "clip_grad_norm_" /\ log[4].net = 2
    /\ log[5].fn = "optim.step"

(***************************************************************************)
(* calculate_huber_loss, on one element.  The error and kappa are the      *)
(* multiples e and k of a common unit u, and losses are counted in units   *)
(* of u^2 / 2:  0.5 * (e u)^2 = e^2 (u^2 / 2)  and                         *)
(* (k u) * (|e u| - 0.5 * (k u)) = k (2 |e| - k) (u^2 / 2).                *)
(* With u a power of two these float operations are exact.                 *)
(***************************************************************************)
MaxHuberError == 8
MaxKappa == 4

HuberQuadratic(e) == e * e

HuberLinearNoHalf(e, k) == k * (2 * Abs(e) - 2 * k)
HuberLinear(e, k) == k * (2 * Abs(e) - k)

\* torch.where(td_errors.abs() <= kappa, 0.5 * td_errors.pow(2),
\*             kappa * (td_errors.abs() - 0.5 * kappa))
calculate_huber_loss(e, k) ==
    IF Abs(e) <= k THEN HuberQuadratic(e) ELSE HuberLinear(e, k)

HuberInit ==
    /\ \E e \in (0 - MaxHuberError)..MaxHuberError, k \in 1..MaxKappa :
        loss = [pc |-> "called", td_errors |-> e, kappa |-> k, result |-> 0]
    /\ call = NoCall
    /\ sweeper = NoObject /\ optimizer = NoObject /\ annealer = NoObject /\ stepCalls = 0
    /\ rms = NoObject /\ appended = <<>> /\ upd = NoObject /\ log = <<>>

HuberReturn ==
    /\ loss.pc = "called"
    /\ loss' = [loss EXCEPT !.pc = "returned",
                            !.result = calculate_huber_loss(loss.td_errors, loss.kappa)]
    /\ UNCHANGED <<sweeper, optimizer, annealer, stepCalls, rms, appended, upd, log, call>>

HuberNext == HuberReturn

SpecHuber == HuberInit /\ [][HuberNext]_vars

\* C9: for every error e and kappa > 0 the result is 0.5 e^2 when
\* |e| <= kappa and kappa (|e| - 0.5 kappa) otherwise; it is never negative,
\* and at |e| = kappa both branch formulas give 0.5 kappa^2.
C9_HuberPiecewiseNonNegative ==
    loss.pc = "returned" =>
        LET e == loss.td_errors
            k == loss.kappa
        IN  /\ Abs(e) <= k => loss.result = e * e
            /\ Abs(e) > k => loss.result = 2 * k * Abs(e) - k * k
            /\ loss.result >= 0
            /\ Abs(e) = k => /\ HuberQuadratic(e) = k * k
                             /\ HuberLinear(e, k) = k * k

C9_Witness ==
    /\ loss.pc = "returned" /\ loss.td_errors = 0 - 3 /\ loss.kappa = 2
    /\ loss.result = 8

(***************************************************************************)
(* calculate_quantile_huber_loss.  td_errors has shape                     *)
(* (batch_size, num_taus, num_target_taus), taus has shape                 *)
(* (batch_size, num_taus); a tau is t / TauDen with t in 0..TauDen.        *)
(* Errors, kappa and huber losses are in the units above, so an element of *)
(* the weighted loss is  |t - TauDen * [e < 0]| * huber / (2 TauDen k)     *)
(* units u, and the result is kept as the exact fraction num / den.        *)
(***************************************************************************)
TauDen == 2

Shapes == {<<1, 1, 1>>, <<1, 2, 1>>, <<2, 1, 1>>, <<1, 1, 2>>, <<1, 2, 2>>, <<2, 1, 2>>, <<2, 2, 1>>}
QuantileErrors == {0 - 2, 0 - 1, 0, 1, 2}
QuantileKappas == {1, 2}

\* (td_errors.detach() < 0).float()
Negative(e) == IF e < 0 THEN 1 ELSE 0

\* numerator over TauDen of torch.abs(taus[..., None] - (td_errors < 0).float())
QuantileWeightNoAbs(t, e) == t - TauDen * Negative(e)
QuantileWeight(t, e) == Abs(t - TauDen * Negative(e))

RECURSIVE SumTo(_, _)
SumTo(f, n) == IF n = 0 THEN 0 ELSE f[n] + SumTo(f, n - 1)

calculate_quantile_huber_loss(td_errors, taus, requires_grad, kappa, shape) ==
    LET batch_size == shape[1]
        num_taus == shape[2]
        num_target_taus == shape[3]
        element_wise_huber_loss ==
            [b \in 1..batch_size |-> [i \in 1..num_taus |-> [j \in 1..num_target_taus |->
                calculate_huber_loss(td_errors[b][i][j], kappa)]]]
        element_wise_quantile_huber_loss ==
            [b \in 1..batch_size |-> [i \in 1..num_taus |-> [j \in 1..num_target_taus |->
                QuantileWeight(taus[b][i], td_errors[b][i][j])
                    * element_wise_huber_loss[b][i][j]]]]
        summed ==
            [b \in 1..batch_size |-> [j \in 1..num_target_taus |->
                SumTo([i \in 1..num_taus |-> element_wise_quantile_huber_loss[b][i][j]],
                      num_taus)]]
        total ==
            SumTo([b \in 1..batch_size |-> SumTo(summed[b], num_target_taus)], batch_size)
    IN  IF requires_grad
        THEN [raised |-> "AssertionError", num |-> 0, den |-> 1]
        ELSE [raised |-> "none", num |-> total,
              den |-> 2 * TauDen * kappa * batch_size * num_target_taus]

QuantileInit ==
    /\ \E shape \in Shapes, kappa \in QuantileKappas, requires_grad \in BOOLEAN :
       \E td_errors \in [1..shape[1] -> [1..shape[2] -> [1..shape[3] -> QuantileErrors]]],
          taus \in [1..shape[1] -> [1..shape[2] -> 0..TauDen]] :
            loss = [pc |-> "called", shape |-> shape, td_errors |-> td_errors, taus |-> taus,
                    requires_grad |-> requires_grad, kappa |-> kappa,
                    result |-> [raised |-> "none", num |-> 0, den |-> 1]]
    /\ call = NoCall
    /\ sweeper = NoObject /\ optimizer = NoObject /\ annealer = NoObject /\ stepCalls = 0
    /\ rms = NoObject /\ appended = <<>> /\ upd = NoObject /\ log = <<>>

QuantileReturn ==
    /\ loss.pc = "called"
    /\ loss' = [loss EXCEPT !.pc = "returned",
                            !.result = calculate_quantile_huber_loss(
                                loss.td_errors, loss.taus, loss.requires_grad,
                                loss.kappa, loss.shape)]
    /\ UNCHANGED <<sweeper, optimizer, annealer, stepCalls, rms, appended, upd, log, call>>

QuantileNext == QuantileReturn

SpecQuantile == QuantileInit /\ [][QuantileNext]_vars

Cells(shape) == (1..shape[1]) \X (1..shape[2]) \X (1..shape[3])

\* the sum of the function g over the finite set S
RECURSIVE SumOver(_, _)
SumOver(S, g) ==
    IF S = {} THEN 0
    ELSE LET x == CHOOSE y \in S : TRUE IN g[x] + SumOver(S \ {x}, g)

\* C10: for taus without gradient and kappa > 0 the result is one scalar,
\* the huber loss of every element weighted by |tau - 1{error < 0}| / kappa,
\* summed over the num_taus axis and averaged over the other two; it is
\* never negative, and it is zero when all errors are zero.
C10_QuantileLossNonNegative ==
    (loss.pc = "returned" /\ ~loss.requires_grad) =>
        LET e(c) == loss.td_errors[c[1]][c[2]][c[3]]
            t(c) == loss.taus[c[1]][c[2]]
            k == loss.kappa
            h(c) == IF e(c) <= k /\ e(c) >= 0 - k
                    THEN e(c) * e(c)
                    ELSE 2 * k * Abs(e(c)) - k * k
            w(c) == IF e(c) < 0 THEN TauDen - t(c) ELSE t(c)
            q(c) == w(c) * h(c)
        IN  /\ loss.result.raised = "none"
            /\ loss.result.num = SumOver(Cells(loss.shape), [c \in Cells(loss.shape) |-> q(c)])
            /\ loss.result.den = 2 * TauDen * k * loss.shape[1] * loss.shape[3]
            /\ loss.result.num >= 0 /\ loss.result.den > 0
            /\ (\A c \in Cells(loss.shape) : e(c) = 0) => loss.result.num = 0

C10_Witness ==
    /\ loss.pc = "returned" /\ ~loss.requires_grad
    /\ loss.shape = <<1, 2, 2>> /\ loss.kappa = 1
    /\ loss.td_errors = << << <<0 - 2, 1>>, <<0, 2>> >> >>
    /\ loss.taus = << <<1, 2>> >>
    /\ loss.result = [raised |-> "none", num |-> 10, den |-> 8]

====
